---------------------------- MODULE Spec2Model ----------------------------
(***************************************************************************)
(* A model of bottle_oauthlib/oauth2.py: the adapter between bottle's      *)
(* request/response objects and an oauthlib server.                        *)
(*                                                                         *)
(* Text on which the code computes (credentials, JSON bodies, header       *)
(* values, content types) is a sequence of one-character strings, so that  *)
(* base64, percent-encoding, JSON parsing and str.format are computed and  *)
(* not assumed.  Names that are only compared (header names, form field    *)
(* names, urls, methods) are plain strings.  A Python value is a record    *)
(* tagged with its type in field t.                                        *)
(***************************************************************************)
EXTENDS Integers, Sequences, FiniteSets, TLC

VARIABLES
    oauthlib,   \* BottleOAuth2._oauthlib: None_ or the configured server
    request,    \* bottle.request, the request being handled
    response,   \* bottle.response, the outgoing response
    received,   \* bottle.request as it was when the last operation started
    calls,      \* whom the last operation called, in order: the supplied
                \* callable, the engine, set_response, add_params_to_request, f
    outcome     \* how the last operation ended: what it returned or raised

vars == <<oauthlib, request, response, received, calls, outcome>>

(***************************************************************************)
(* Python values                                                           *)
(***************************************************************************)
None_ == [t |-> "None"]
Str(chars) == [t |-> "str", s |-> chars]
Int_(n) == [t |-> "int", n |-> n]
Bool_(b) == [t |-> "bool", b |-> b]
List_(items) == [t |-> "list", items |-> items]
Dict_(pairs) == [t |-> "dict", pairs |-> pairs]
Bytes_(chars) == [t |-> "bytes", data |-> chars]
Tuple_(items) == [t |-> "tuple", items |-> items]
\* a callable: what calling it with the request does
Function_(does, value) == [t |-> "function", does |-> does, ret |-> value]

\* Python's truth value of an object (`if x`, `not x`, `assert x`)
Truthy(v) ==
    CASE v.t = "None" -> FALSE
      [] v.t = "str" -> v.s # <<>>
      [] v.t = "int" -> v.n # 0
      [] v.t = "bool" -> v.b
      [] v.t = "list" -> v.items # <<>>
      [] v.t = "dict" -> v.pairs # <<>>
      [] v.t = "bytes" -> v.data # <<>>
      [] OTHER -> TRUE

(***************************************************************************)
(* dict: a sequence of <<key, value>> pairs in insertion order, keys unique *)
(***************************************************************************)
DictKeys(pairs) == {pairs[i][1] : i \in 1..Len(pairs)}

DictHas(pairs, k) == k \in DictKeys(pairs)

DictGet(pairs, k) == pairs[CHOOSE i \in 1..Len(pairs) : pairs[i][1] = k][2]

\* d[k] = v: an existing key keeps its place
DictSet(pairs, k, v) ==
    IF DictHas(pairs, k)
    THEN [i \in 1..Len(pairs) |-> IF pairs[i][1] = k THEN <<k, v>> ELSE pairs[i]]
    ELSE Append(pairs, <<k, v>>)

\* dict(base, **more) and `for k, v in more.items(): base[k] = v`
RECURSIVE DictUpdate(_, _)
DictUpdate(base, more) ==
    IF more = <<>> THEN base
    ELSE DictUpdate(DictSet(base, more[1][1], more[1][2]), Tail(more))

(***************************************************************************)
(* Characters                                                              *)
(***************************************************************************)
\* the printable ASCII characters, code 32 first (code 96, the grave accent,
\* is a place holder: no text of the model holds it)
Printable == <<" ","!","\"","#","$","%","&","'","(",")","*","+",",","-",".","/","0","1","2","3","4","5","6","7","8","9",":",";","<","=",">","?","@","A","B","C","D","E","F","G","H","I","J","K","L","M","N","O","P","Q","R","S","T","U","V","W","X","Y","Z","[","\\","]","^","_","(grave)","a","b","c","d","e","f","g","h","i","j","k","l","m","n","o","p","q","r","s","t","u","v","w","x","y","z","{","|","}","~">>

Ord(c) == (CHOOSE i \in 1..Len(Printable) : Printable[i] = c) + (32 - 1)

Digits == <<"0","1","2","3","4","5","6","7","8","9">>

IsDigit(c) == \E i \in 1..Len(Digits) : Digits[i] = c

DigitValue(c) == (CHOOSE i \in 1..Len(Digits) : Digits[i] = c) - 1

RECURSIVE Concat(_)
Concat(seqs) == IF seqs = <<>> THEN <<>> ELSE seqs[1] \o Concat(Tail(seqs))

\* sep.join(parts)
RECURSIVE Join(_, _)
Join(sep, parts) ==
    IF parts = <<>> THEN <<>>
    ELSE IF Len(parts) = 1 THEN parts[1]
    ELSE parts[1] \o sep \o Join(sep, Tail(parts))

\* needle in hay
IsSubstring(needle, hay) ==
    \E i \in 0..(Len(hay) - Len(needle)) :
        SubSeq(hay, i + 1, i + Len(needle)) = needle

(***************************************************************************)
(* requests.auth._basic_auth_str(username, password)                       *)
(***************************************************************************)
B64Alphabet == <<"A","B","C","D","E","F","G","H","I","J","K","L","M","N","O","P","Q","R","S","T","U","V","W","X","Y","Z","a","b","c","d","e","f","g","h","i","j","k","l","m","n","o","p","q","r","s","t","u","v","w","x","y","z","0","1","2","3","4","5","6","7","8","9","+","/">>

B64Char(sextet) == B64Alphabet[sextet + 1]

\* base64.b64encode of a sequence of byte values
RECURSIVE B64Encode(_)
B64Encode(bytes) ==
    IF bytes = <<>> THEN <<>>
    ELSE IF Len(bytes) = 1 THEN
        << B64Char(bytes[1] \div 4), B64Char((bytes[1] % 4) * 16), "=", "=" >>
    ELSE IF Len(bytes) = 2 THEN
        << B64Char(bytes[1] \div 4),
           B64Char((bytes[1] % 4) * 16 + (bytes[2] \div 16)),
           B64Char((bytes[2] % 16) * 4), "=" >>
    ELSE
        << B64Char(bytes[1] \div 4),
           B64Char((bytes[1] % 4) * 16 + (bytes[2] \div 16)),
           B64Char((bytes[2] % 16) * 4 + (bytes[3] \div 64)),
           B64Char(bytes[3] % 64) >>
        \o B64Encode(SubSeq(bytes, 4, Len(bytes)))

\* str.encode('latin1') of printable ASCII text
Latin1(chars) == [i \in 1..Len(chars) |-> Ord(chars[i])]

BasicPrefix == <<"B","a","s","i","c"," ">>

\* str(x), for the case requests handles: a password that is no string
PasswordText(password) ==
    IF password.t = "str" THEN password.s ELSE <<"N","o","n","e">>

\* a faulty variant: user and password joined without the ":"
BasicAuthStrWithoutSeparator(username, password) ==
    Str(BasicPrefix \o B64Encode(Latin1(username.s \o PasswordText(password))))

basic_auth_str(username, password) ==
    Str(BasicPrefix
        \o B64Encode(Latin1(username.s \o <<":">> \o PasswordText(password))))

(***************************************************************************)
(* extract_params                                                          *)
(***************************************************************************)
FormUrlencoded == <<"a","p","p","l","i","c","a","t","i","o","n","/","x","-","w","w","w","-","f","o","r","m","-","u","r","l","e","n","c","o","d","e","d">>

\* `bottle_request.auth if bottle_request.auth else (None, None)`
AuthPair(bottle_request) ==
    IF bottle_request.auth = None_ THEN <<None_, None_>>
    ELSE bottle_request.auth.items

\* lines 31-35
ClientOf(username, password) ==
    (IF username # None_ THEN << <<"client_id", username>> >> ELSE <<>>)
    \o (IF password # None_ THEN << <<"client_secret", password>> >> ELSE <<>>)

\* lines 42-46
BasicAuthOf(username, password) ==
    IF username # None_
    THEN << <<"Authorization", basic_auth_str(username, password)>> >>
    ELSE <<>>

\* a faulty variant: the Basic credentials override the form's fields
ExtractParamsCredentialsWin(bottle_request) ==
    LET username == AuthPair(bottle_request)[1]
        password == AuthPair(bottle_request)[2]
    IN  IF IsSubstring(FormUrlencoded, bottle_request.content_type)
        THEN [uri |-> bottle_request.url,
              http_method |-> bottle_request.method,
              body |-> Dict_(DictUpdate(bottle_request.forms,
                                        ClientOf(username, password))),
              headers |-> bottle_request.headers]
        ELSE [uri |-> bottle_request.url,
              http_method |-> bottle_request.method,
              body |-> bottle_request.body,
              headers |-> DictUpdate(bottle_request.headers,
                                     BasicAuthOf(username, password))]

extract_params(bottle_request) ==
    LET username == AuthPair(bottle_request)[1]
        password == AuthPair(bottle_request)[2]
    IN  IF IsSubstring(FormUrlencoded, bottle_request.content_type)
        THEN [uri |-> bottle_request.url,
              http_method |-> bottle_request.method,
              body |-> Dict_(DictUpdate(ClientOf(username, password),
                                        bottle_request.forms)),
              headers |-> bottle_request.headers]
        ELSE [uri |-> bottle_request.url,
              http_method |-> bottle_request.method,
              body |-> bottle_request.body,
              headers |-> DictUpdate(bottle_request.headers,
                                     BasicAuthOf(username, password))]

(***************************************************************************)
(* json.loads, for the JSON the model's bodies are written in: objects,    *)
(* arrays, strings without escapes, integers, true, false, null, and       *)
(* spaces between tokens                                                   *)
(***************************************************************************)
JsonFail == [ok |-> FALSE]

JsonAt(s, i) == IF i <= Len(s) THEN s[i] ELSE "(end)"

RECURSIVE SkipSpaces(_, _)
SkipSpaces(s, i) == IF JsonAt(s, i) = " " THEN SkipSpaces(s, i + 1) ELSE i

\* the place of the quote that closes a string whose text starts at i, or 0
RECURSIVE ClosingQuote(_, _)
ClosingQuote(s, i) ==
    IF i > Len(s) \/ s[i] = "\\" THEN 0
    ELSE IF s[i] = "\"" THEN i
    ELSE ClosingQuote(s, i + 1)

\* the place after the digits that start at i
RECURSIVE DigitsEnd(_, _)
DigitsEnd(s, i) == IF IsDigit(JsonAt(s, i)) THEN DigitsEnd(s, i + 1) ELSE i

RECURSIVE DecimalValue(_)
DecimalValue(digits) ==
    IF digits = <<>> THEN 0
    ELSE 10 * DecimalValue(SubSeq(digits, 1, Len(digits) - 1))
         + DigitValue(digits[Len(digits)])

JsonString(s, i) ==
    LET close == ClosingQuote(s, i + 1)
    IN  IF close = 0 THEN JsonFail
        ELSE [ok |-> TRUE, val |-> Str(SubSeq(s, i + 1, close - 1)), next |-> close + 1]

\* -? ( 0 | [1-9][0-9]* ); a fraction or an exponent is not among the texts
\* of the model and is not parsed
JsonNumber(s, i) ==
    LET first == IF JsonAt(s, i) = "-" THEN i + 1 ELSE i
        last == DigitsEnd(s, first)
        digits == SubSeq(s, first, last - 1)
    IN  IF digits = <<>> \/ (Len(digits) > 1 /\ digits[1] = "0")
           \/ JsonAt(s, last) \in {".", "e", "E"}
        THEN JsonFail
        ELSE [ok |-> TRUE,
              val |-> Int_(IF first = i THEN DecimalValue(digits)
                           ELSE 0 - DecimalValue(digits)),
              next |-> last]

JsonLiteral(s, i, word, value) ==
    IF i + Len(word) - 1 <= Len(s) /\ SubSeq(s, i, i + Len(word) - 1) = word
    THEN [ok |-> TRUE, val |-> value, next |-> i + Len(word)]
    ELSE JsonFail

RECURSIVE JsonValue(_, _)
RECURSIVE JsonMembers(_, _, _)
RECURSIVE JsonItems(_, _, _)

\* the members of an object from place i on (after "{" or ","), added to pairs
JsonMembers(s, i, pairs) ==
    LET k == SkipSpaces(s, i)
        key == JsonString(s, k)
    IN  IF JsonAt(s, k) # "\"" \/ ~key.ok THEN JsonFail
        ELSE LET colon == SkipSpaces(s, key.next)
                 item == JsonValue(s, SkipSpaces(s, colon + 1))
             IN  IF JsonAt(s, colon) # ":" \/ ~item.ok THEN JsonFail
                 ELSE LET after == SkipSpaces(s, item.next)
                          more == DictSet(pairs, key.val, item.val)
                      IN  IF JsonAt(s, after) = "," THEN JsonMembers(s, after + 1, more)
                          ELSE IF JsonAt(s, after) = "}"
                          THEN [ok |-> TRUE, val |-> Dict_(more), next |-> after + 1]
                          ELSE JsonFail

\* the items of an array from place i on (after "[" or ","), added to items
JsonItems(s, i, items) ==
    LET item == JsonValue(s, SkipSpaces(s, i))
    IN  IF ~item.ok THEN JsonFail
        ELSE LET after == SkipSpaces(s, item.next)
                 more == Append(items, item.val)
             IN  IF JsonAt(s, after) = "," THEN JsonItems(s, after + 1, more)
                 ELSE IF JsonAt(s, after) = "]"
                 THEN [ok |-> TRUE, val |-> List_(more), next |-> after + 1]
                 ELSE JsonFail

JsonValue(s, i) ==
    LET c == JsonAt(s, i)
    IN  CASE c = "{" ->
               IF JsonAt(s, SkipSpaces(s, i + 1)) = "}"
               THEN [ok |-> TRUE, val |-> Dict_(<<>>), next |-> SkipSpaces(s, i + 1) + 1]
               ELSE JsonMembers(s, i + 1, <<>>)
          [] c = "[" ->
               IF JsonAt(s, SkipSpaces(s, i + 1)) = "]"
               THEN [ok |-> TRUE, val |-> List_(<<>>), next |-> SkipSpaces(s, i + 1) + 1]
               ELSE JsonItems(s, i + 1, <<>>)
          [] c = "\"" -> JsonString(s, i)
          [] c = "-" \/ IsDigit(c) -> JsonNumber(s, i)
          [] c = "t" -> JsonLiteral(s, i, <<"t","r","u","e">>, Bool_(TRUE))
          [] c = "f" -> JsonLiteral(s, i, <<"f","a","l","s","e">>, Bool_(FALSE))
          [] c = "n" -> JsonLiteral(s, i, <<"n","u","l","l">>, None_)
          [] OTHER -> JsonFail

\* json.loads(body): ok = FALSE stands for json.decoder.JSONDecodeError
json_loads(s) ==
    LET parsed == JsonValue(s, SkipSpaces(s, 1))
    IN  IF parsed.ok /\ SkipSpaces(s, parsed.next) = Len(s) + 1
        THEN [ok |-> TRUE, val |-> parsed.val]
        ELSE JsonFail

(***************************************************************************)
(* urllib.parse.quote and "{0}={1}".format                                 *)
(***************************************************************************)
HexDigits == <<"0","1","2","3","4","5","6","7","8","9","A","B","C","D","E","F">>

\* the characters quote() leaves as they are: letters, digits, "_.-~" and its
\* default safe character "/"
IsUnreserved(c) ==
    \/ IsDigit(c)
    \/ (Ord(c) >= Ord("A") /\ Ord(c) <= Ord("Z"))
    \/ (Ord(c) >= Ord("a") /\ Ord(c) <= Ord("z"))
    \/ c \in {"_", ".", "-", "~", "/"}

QuoteChar(c) ==
    IF IsUnreserved(c) THEN <<c>>
    ELSE << "%", HexDigits[(Ord(c) \div 16) + 1], HexDigits[(Ord(c) % 16) + 1] >>

quote(chars) == Concat([i \in 1..Len(chars) |-> QuoteChar(chars[i])])

\* str(n) of a natural number
RECURSIVE NatText(_)
NatText(n) ==
    IF n < 10 THEN << Digits[n + 1] >>
    ELSE NatText(n \div 10) \o << Digits[(n % 10) + 1] >>

RECURSIVE PyRepr(_)
\* repr(v), which is how str() shows the items of a list or dict
PyRepr(v) ==
    CASE v.t = "str" -> <<"'">> \o v.s \o <<"'">>
      [] v.t = "int" -> IF v.n < 0 THEN <<"-">> \o NatText(0 - v.n) ELSE NatText(v.n)
      [] v.t = "bool" -> IF v.b THEN <<"T","r","u","e">> ELSE <<"F","a","l","s","e">>
      [] v.t = "None" -> <<"N","o","n","e">>
      [] v.t = "list" ->
           <<"[">> \o Join(<<",", " ">>, [i \in 1..Len(v.items) |-> PyRepr(v.items[i])])
           \o <<"]">>
      [] v.t = "dict" ->
           <<"{">>
           \o Join(<<",", " ">>,
                   [i \in 1..Len(v.pairs) |->
                       PyRepr(v.pairs[i][1]) \o <<":", " ">> \o PyRepr(v.pairs[i][2])])
           \o <<"}">>

\* what "{0}".format(v) writes for v
PyFormat(v) == IF v.t = "str" THEN v.s ELSE PyRepr(v)

\* lines 111-114: one "key=value" pair
FormPair(k, v) ==
    (IF k.t = "str" THEN quote(k.s) ELSE PyFormat(k))
    \o <<"=">>
    \o (IF v.t = "str" THEN quote(v.s) ELSE PyFormat(v))

\* lines 110-115
FormEncode(pairs) ==
    Join(<<"&">>, [i \in 1..Len(pairs) |-> FormPair(pairs[i][1], pairs[i][2])])

(***************************************************************************)
(* set_response                                                            *)
(***************************************************************************)
ApplicationJson == <<"a","p","p","l","i","c","a","t","i","o","n","/","j","s","o","n">>

JsonContentType == <<"a","p","p","l","i","c","a","t","i","o","n","/","j","s","o","n",";","c","h","a","r","s","e","t","=","U","T","F","-","8">>

FormContentType == <<"a","p","p","l","i","c","a","t","i","o","n","/","x","-","w","w","w","-","f","o","r","m","-","u","r","l","e","n","c","o","d","e","d",";","c","h","a","r","s","e","t","=","U","T","F","-","8">>

\* lines 102-103
AcceptsJson(bottle_request) ==
    /\ DictHas(bottle_request.headers, "Accept")
    /\ DictGet(bottle_request.headers, "Accept") = Str(ApplicationJson)

WithHeader(bottle_response, k, v) ==
    [bottle_response EXCEPT !.headers = DictSet(@, k, v)]

\* the response after set_response, and the exception it raised ("no": none)
\* a faulty variant: the body's type is checked before its emptiness, and
\* the body is written without looking at what it holds
SetResponseTypeCheckFirst(bottle_request, bottle_response, status, headers, body, force_json) ==
    IF headers.t # "dict" \/ (body # None_ /\ body.t # "str")
    THEN [response |-> bottle_response, raised |-> "TypeError"]
    ELSE [response |-> [bottle_response EXCEPT
                            !.status = status,
                            !.headers = DictUpdate(@, headers.pairs),
                            !.body = IF Truthy(body) THEN body ELSE @],
          raised |-> "no"]

set_response(bottle_request, bottle_response, status, headers, body, force_json) ==
    IF headers.t # "dict"
    THEN [response |-> bottle_response, raised |-> "TypeError"]
    ELSE
    LET written == [bottle_response EXCEPT
                        !.status = status,
                        !.headers = DictUpdate(@, headers.pairs)]
    IN  IF ~Truthy(body) THEN [response |-> written, raised |-> "no"]
        ELSE IF body.t # "str" THEN [response |-> written, raised |-> "TypeError"]
        ELSE
        LET values == json_loads(body.s)
        IN  IF ~values.ok
            THEN [response |-> [written EXCEPT !.body = body], raised |-> "no"]
            ELSE IF force_json = Bool_(TRUE) \/ AcceptsJson(bottle_request)
            THEN [response |->
                     [WithHeader(written, "Content-Type", Str(JsonContentType))
                         EXCEPT !.body = body],
                  raised |-> "no"]
            ELSE IF values.val.t # "dict"
            THEN [response |-> WithHeader(written, "Content-Type", Str(FormContentType)),
                  raised |-> "AttributeError"]
            ELSE [response |->
                     [WithHeader(written, "Content-Type", Str(FormContentType))
                         EXCEPT !.body = Str(FormEncode(values.val.pairs))],
                  raised |-> "no"]

(***************************************************************************)
(* add_params_to_request                                                   *)
(***************************************************************************)
\* the value of a request attribute that was never set (AttributeError)
Unset == [t |-> "unset"]

\* a faulty variant: the last of the params is not attached
AddParamsWithoutScopes(bottle_request, params) ==
    LET oauth == IF bottle_request.oauth = Unset THEN <<>> ELSE bottle_request.oauth.pairs
    IN  [bottle_request EXCEPT !.oauth =
            Dict_(IF Truthy(params)
                  THEN DictUpdate(oauth, SubSeq(params.pairs, 1, Len(params.pairs) - 1))
                  ELSE oauth)]

add_params_to_request(bottle_request, params) ==
    LET oauth == IF bottle_request.oauth = Unset THEN <<>> ELSE bottle_request.oauth.pairs
    IN  [bottle_request EXCEPT !.oauth =
            Dict_(IF Truthy(params) THEN DictUpdate(oauth, params.pairs) ELSE oauth)]

(***************************************************************************)
(* The requests bottle hands over                                          *)
(***************************************************************************)
\* number of user/password pairs of CredentialPool that requests carry
MaxCred == 2

CredentialPool ==
    << <<Str(<<"a","p","p">>), Str(<<"s","3","c","r","e","t">>)>>,
       <<Str(<<"a">>), Str(<<"b",":","c">>)>>,
       <<Str(<<"w","e","b">>), Str(<<>>)>>,
       <<Str(<<"m">>), Str(<<"p","w">>)>> >>

Credentials == {CredentialPool[i] : i \in 1..MaxCred}

\* what a client sends for user u and password p
ClientBasicHeader(u, p) ==
    Str(BasicPrefix \o B64Encode(Latin1(u.s \o <<":">> \o p.s)))

BearerHeader == Str(<<"B","e","a","r","e","r"," ","t","o","k">>)

\* (request.auth, the Authorization header or None_): no authentication, a
\* Bearer token, HTTP Basic credentials, and a user the server authenticated
\* (REMOTE_USER), for which bottle gives (user, None)
Authentications ==
    { [auth |-> None_, header |-> None_],
      [auth |-> None_, header |-> BearerHeader],
      [auth |-> Tuple_(<<CredentialPool[1][1], None_>>), header |-> None_] }
    \cup { [auth |-> Tuple_(c), header |-> ClientBasicHeader(c[1], c[2])] :
              c \in Credentials }

FormCharset == FormUrlencoded \o <<";"," ","c","h","a","r","s","e","t","=","u","t","f","-","8">>

\* (content type, form fields): only a form request has form fields
Payloads ==
    { [content_type |-> ApplicationJson, forms |-> <<>>] }
    \cup { [content_type |-> ct, forms |-> f] :
              ct \in {FormUrlencoded, FormCharset},
              f \in { << <<"grant_type", Str(<<"p","a","s","s","w","o","r","d">>)>>, <<"username", Str(<<"j","o">>)>> >>,
                      << <<"grant_type", Str(<<"c","l","i","e","n","t","_","c","r","e","d","e","n","t","i","a","l","s">>)>>,
                         <<"client_id", Str(<<"f","o","r","m","-","a","p","p">>)>> >> } }

Accepts == {None_, Str(ApplicationJson), Str(FormUrlencoded)}

\* (the scope query parameter, the oauth attribute the request already has)
Extras ==
    { [scope |-> None_, oauth |-> Unset],
      [scope |-> Str(<<"r","e","a","d"," ","w","r","i","t","e">>), oauth |-> Unset],
      [scope |-> None_, oauth |-> Dict_(<< <<"client", Str(<<"o","l","d">>)>>, <<"state", Str(<<"x","y","z">>)>> >>)] }

HeadersOf(pay, au, accept) ==
    << <<"Content-Type", Str(pay.content_type)>> >>
    \o (IF accept # None_ THEN << <<"Accept", accept>> >> ELSE <<>>)
    \o (IF au.header # None_ THEN << <<"Authorization", au.header>> >> ELSE <<>>)

Requests ==
    { [t |-> "request",
       url |-> "https://as.example/endpoint",
       method |-> "POST",
       content_type |-> pay.content_type,
       auth |-> au.auth,
       forms |-> pay.forms,
       body |-> Bytes_(<<"{","\"","t","o","k","e","n","\"",":"," ","\"","t","\"","}">>),
       headers |-> HeadersOf(pay, au, accept),
       scope |-> ex.scope,
       oauth |-> ex.oauth] :
         pay \in Payloads, au \in Authentications, accept \in Accepts, ex \in Extras }

\* a fresh bottle.response
FreshResponse == [t |-> "response", status |-> 200, headers |-> <<>>, body |-> Str(<<>>)]

(***************************************************************************)
(* The collaborators: the oauthlib server, the decorated view f and the    *)
(* callables given to the decorators.  They are not code of this           *)
(* repository: each is what it can return.                                 *)
(***************************************************************************)
Server == [t |-> "Server"]

JsonObjectBody == Str(<<"{","\"","a","\"",":"," ","\"","1","\"",","," ","\"","b","\"",":"," ","\"","2","\"","}">>)

\* (headers, body, status) as the server's create_*_response returns them
EngineResponses ==
    { <<Dict_(<< <<"Cache-Control", Str(<<"n","o","-","s","t","o","r","e">>)>> >>), JsonObjectBody, 200>>,
      <<Dict_(<<>>), Str(<<"{","\"","e","r","r","o","r","\"",":"," ","\"","i","n","v","a","l","i","d"," ","r","e","q","u","e","s","t","\"","}">>), 400>>,
      <<Dict_(<< <<"Content-Type", Str(<<"t","e","x","t","/","p","l","a","i","n">>)>> >>), Str(<<"{","\"","n","\"",":"," ","1",","," ","\"","o","k","\"",":"," ","t","r","u","e",","," ","\"","t","o","\"",":"," ","\"","a","&","b","\"","}">>), 200>>,
      <<Dict_(<< <<"Location", Str(<<"h","t","t","p","s",":","/","/","r","p",".","e","x","a","m","p","l","e","/","c","b","?","c","o","d","e","=","c">>)>> >>), None_, 302>>,
      <<Dict_(<<>>), Str(<<>>), 200>>,
      <<Dict_(<<>>), Str(<<"n","o","t"," ","j","s","o","n">>), 200>>,
      <<Dict_(<<>>), Str(<<"[","1",","," ","2","]">>), 200>>,
      <<None_, JsonObjectBody, 200>>,
      <<Dict_(<<>>), Dict_(<< <<Str(<<"a","c","t","i","v","e">>), Bool_(TRUE)>> >>), 200>>,
      <<Dict_(<<>>), Bytes_(<<>>), 200>> }

\* the object verify_request returns beside valid
VerifyResults ==
    { [client |-> Str(<<"f","o","r","m","-","a","p","p">>), user |-> Str(<<"j","o">>), scopes |-> List_(<<Str(<<"r","e","a","d">>)>>)],
      [client |-> None_, user |-> None_, scopes |-> List_(<<>>)] }

\* what the decorated view returns
ViewReturns == {None_, Str(<<>>), Str(<<"v","i","e","w">>)}

\* what a decorator is given as credentials or scopes: nothing, a value, a
\* function of the request, a callable that raises TypeError when called with
\* the request, a callable that raises another exception
Supplied(value) ==
    { None_, value, Function_("returns", value), Function_("TypeError", None_),
      Function_("raises", None_) }

SuppliedCredentials == Supplied(Dict_(<< <<"tenant", Str(<<"a","c","m","e">>)>> >>))

SuppliedScopes == Supplied(List_(<<Str(<<"r","e","a","d">>)>>))

\* try: x = supplied(bottle.request) / except TypeError: x = supplied
\* lines 133-136 and 156-159
Resolve(supplied) ==
    IF supplied.t # "function" THEN [raised |-> "no", value |-> supplied]
    ELSE IF supplied.does = "returns" THEN [raised |-> "no", value |-> supplied.ret]
    ELSE IF supplied.does = "TypeError" THEN [raised |-> "no", value |-> supplied]
    ELSE [raised |-> "RuntimeError", value |-> None_]

\* str.split(sep) for a one-character sep
RECURSIVE Split(_, _)
Split(chars, sep) ==
    IF \A i \in 1..Len(chars) : chars[i] # sep THEN <<chars>>
    ELSE LET i == CHOOSE j \in 1..Len(chars) :
                      chars[j] = sep /\ \A k \in 1..(j - 1) : chars[k] # sep
         IN  <<SubSeq(chars, 1, i - 1)>> \o Split(SubSeq(chars, i + 1, Len(chars)), sep)

\* bottle.request.params.get('scope', '').split(' ')
ScopeParam(bottle_request) ==
    LET text == IF bottle_request.scope = None_ THEN <<>> ELSE bottle_request.scope.s
        parts == Split(text, " ")
    IN  List_([i \in 1..Len(parts) |-> Str(parts[i])])

(***************************************************************************)
(* BottleOAuth2: the four wrappers.  Each is the whole of wrapper(): what  *)
(* it leaves in bottle.request and bottle.response, whom it called, and    *)
(* what it returned or raised.                                             *)
(***************************************************************************)
Forbidden == 403

HTTPError(status, body) == [t |-> "HTTPError", status |-> status, body |-> body]

Ended(op, args, bottle_request, bottle_response, called, raised, value) ==
    [request |-> bottle_request, response |-> bottle_response, calls |-> called,
     outcome |-> [op |-> op, args |-> args, raised |-> raised, value |-> value]]

\* a faulty variant: no assertion, the call on None fails instead
NotInitializedUnasserted(op, args, bottle_request, bottle_response) ==
    Ended(op, args, bottle_request, bottle_response, <<>>, "AttributeError", None_)

\* `assert self._oauthlib` failed: nothing was done
NotInitialized(op, args, bottle_request, bottle_response) ==
    Ended(op, args, bottle_request, bottle_response, <<>>, "AssertionError", None_)

\* the call of a supplied callable, when there is one to call
SuppliedCall(name, supplied, bottle_request) ==
    IF supplied.t = "function"
    THEN << [fn |-> name, args |-> <<bottle_request>>] >>
    ELSE <<>>

EngineCall(name, args, ret) == [fn |-> name, args |-> args, ret |-> ret]

SetResponseCall(status, headers, body, force_json) ==
    [fn |-> "set_response", args |-> <<status, headers, body, force_json>>]

AddParamsCall(params) == [fn |-> "add_params_to_request", args |-> <<params>>]

ViewCall(ret) == [fn |-> "f", ret |-> ret]

\* a faulty variant: the view's value is returned whatever it is
ViewReturnAsIs(func_response, bottle_response) == func_response

\* `if not func_response: return bottle.response` / `return func_response`
ViewOrResponse(func_response, bottle_response) ==
    IF ~Truthy(func_response) THEN bottle_response ELSE func_response

\* a faulty variant: force_json is not passed on to set_response
WriteThenViewUnforced(op, args, bottle_request, bottle_response, called, engine, force_json, func_response) ==
    LET set == set_response(bottle_request, bottle_response,
                            engine[3], engine[1], engine[2], Bool_(FALSE))
        written == Append(called,
                          SetResponseCall(engine[3], engine[1], engine[2], Bool_(FALSE)))
    IN  IF set.raised # "no"
        THEN Ended(op, args, bottle_request, set.response, written, set.raised, None_)
        ELSE Ended(op, args, bottle_request, set.response,
                   Append(written, ViewCall(func_response)), "no",
                   ViewOrResponse(func_response, set.response))

\* lines 137-145, 184-196 and 206-217: the engine has answered `engine`
WriteThenView(op, args, bottle_request, bottle_response, called, engine, force_json, func_response) ==
    LET set == set_response(bottle_request, bottle_response,
                            engine[3], engine[1], engine[2], force_json)
        written == Append(called,
                          SetResponseCall(engine[3], engine[1], engine[2], force_json))
    IN  IF set.raised # "no"
        THEN Ended(op, args, bottle_request, set.response, written, set.raised, None_)
        ELSE Ended(op, args, bottle_request, set.response,
                   Append(written, ViewCall(func_response)), "no",
                   ViewOrResponse(func_response, set.response))

\* lines 126-147
TokenWrapper(server, bottle_request, bottle_response, credentials, engine, func_response) ==
    LET op == "create_token_response"
        args == <<credentials>>
        credentials_extra == Resolve(credentials)
        called == SuppliedCall("credentials", credentials, bottle_request)
        ex == extract_params(bottle_request)
    IN  IF ~Truthy(server)
        THEN NotInitialized(op, args, bottle_request, bottle_response)
        ELSE IF credentials_extra.raised # "no"
        THEN Ended(op, args, bottle_request, bottle_response, called,
                   credentials_extra.raised, None_)
        ELSE WriteThenView(op, args, bottle_request, bottle_response,
                 Append(called,
                        EngineCall("oauthlib.create_token_response",
                                   <<ex.uri, ex.http_method, ex.body, ex.headers,
                                     credentials_extra.value>>,
                                   engine)),
                 engine, Bool_(FALSE), func_response)

\* a faulty variant: the view is called whatever the engine answered
VerifyWrapperViewAlways(server, bottle_request, bottle_response, scopes, valid, r, func_response) ==
    LET op == "verify_request"
        args == <<scopes>>
        scopes_list == Resolve(scopes)
        called == SuppliedCall("scopes", scopes, bottle_request)
        ex == extract_params(bottle_request)
        verified == Append(called,
                           EngineCall("oauthlib.verify_request",
                                      <<ex.uri, ex.http_method, ex.body, ex.headers,
                                        scopes_list.value>>,
                                      <<valid, r>>))
        params == Dict_(<< <<"client", r.client>>, <<"user", r.user>>,
                           <<"scopes", r.scopes>> >>)
        attached == add_params_to_request(bottle_request, params)
        noted == Append(verified, AddParamsCall(params))
    IN  IF ~Truthy(server)
        THEN NotInitialized(op, args, bottle_request, bottle_response)
        ELSE IF scopes_list.raised # "no"
        THEN Ended(op, args, bottle_request, bottle_response, called,
                   scopes_list.raised, None_)
        ELSE Ended(op, args, attached, bottle_response,
                   Append(noted, ViewCall(func_response)), "no", func_response)

\* lines 149-176
VerifyWrapper(server, bottle_request, bottle_response, scopes, valid, r, func_response) ==
    LET op == "verify_request"
        args == <<scopes>>
        scopes_list == Resolve(scopes)
        called == SuppliedCall("scopes", scopes, bottle_request)
        ex == extract_params(bottle_request)
        verified == Append(called,
                           EngineCall("oauthlib.verify_request",
                                      <<ex.uri, ex.http_method, ex.body, ex.headers,
                                        scopes_list.value>>,
                                      <<valid, r>>))
        params == Dict_(<< <<"client", r.client>>, <<"user", r.user>>,
                           <<"scopes", r.scopes>> >>)
        attached == add_params_to_request(bottle_request, params)
        noted == Append(verified, AddParamsCall(params))
    IN  IF ~Truthy(server)
        THEN NotInitialized(op, args, bottle_request, bottle_response)
        ELSE IF scopes_list.raised # "no"
        THEN Ended(op, args, bottle_request, bottle_response, called,
                   scopes_list.raised, None_)
        ELSE IF valid
        THEN Ended(op, args, attached, bottle_response,
                   Append(noted, ViewCall(func_response)), "no", func_response)
        ELSE Ended(op, args, attached, bottle_response, noted, "no",
                   HTTPError(Forbidden, "Permission denied"))

\* lines 178-198
IntrospectWrapper(server, bottle_request, bottle_response, engine, func_response) ==
    LET op == "create_introspect_response"
        ex == extract_params(bottle_request)
    IN  IF ~Truthy(server)
        THEN NotInitialized(op, <<>>, bottle_request, bottle_response)
        ELSE WriteThenView(op, <<>>, bottle_request, bottle_response,
                 << EngineCall("oauthlib.create_introspect_response",
                               <<ex.uri, ex.http_method, ex.body, ex.headers>>,
                               engine) >>,
                 engine, Bool_(TRUE), func_response)

\* lines 200-219
AuthorizationWrapper(server, bottle_request, bottle_response, engine, func_response) ==
    LET op == "create_authorization_response"
        ex == extract_params(bottle_request)
        scope == ScopeParam(bottle_request)
    IN  IF ~Truthy(server)
        THEN NotInitialized(op, <<>>, bottle_request, bottle_response)
        ELSE WriteThenView(op, <<>>, bottle_request, bottle_response,
                 << EngineCall("oauthlib.create_authorization_response",
                               <<ex.uri, ex.http_method, ex.body, ex.headers, scope>>,
                               engine) >>,
                 engine, Bool_(FALSE), func_response)

(***************************************************************************)
(* The state machine                                                       *)
(***************************************************************************)
Idle == [op |-> "none", args |-> <<>>, raised |-> "no", value |-> None_]

Init ==
    /\ oauthlib = None_
    /\ request \in Requests
    /\ response = FreshResponse
    /\ received = request
    /\ calls = <<>>
    /\ outcome = Idle

\* BottleOAuth2.initialize(oauthlib_server)
initialize ==
    /\ oauthlib' = Server
    /\ UNCHANGED <<request, response, received, calls, outcome>>

\* bottle runs the route's callable, once for a request: bottle.request and
\* bottle.response are new for every HTTP request, so a behaviour handles the
\* one request Init chose
Handle(end) ==
    /\ outcome.op = "none"
    /\ received' = request
    /\ request' = end.request
    /\ response' = end.response
    /\ calls' = end.calls
    /\ outcome' = end.outcome
    /\ UNCHANGED oauthlib

create_token_response ==
    \E credentials \in SuppliedCredentials, engine \in EngineResponses,
       func_response \in ViewReturns :
        Handle(TokenWrapper(oauthlib, request, response, credentials, engine,
                            func_response))

verify_request ==
    \E scopes \in SuppliedScopes, valid \in BOOLEAN, r \in VerifyResults,
       func_response \in ViewReturns :
        Handle(VerifyWrapper(oauthlib, request, response, scopes, valid, r,
                             func_response))

create_introspect_response ==
    \E engine \in EngineResponses, func_response \in ViewReturns :
        Handle(IntrospectWrapper(oauthlib, request, response, engine, func_response))

create_authorization_response ==
    \E engine \in EngineResponses, func_response \in ViewReturns :
        Handle(AuthorizationWrapper(oauthlib, request, response, engine,
                                    func_response))

\* extract_params(bottle.request), called by itself
ExtractParams ==
    Handle(Ended("extract_params", <<>>, request, response, <<>>, "no",
                 extract_params(request)))

\* what a caller may hand to set_response as headers and as body
WriterHeaders ==
    { Dict_(<<>>), Dict_(<< <<"Cache-Control", Str(<<"n","o","-","s","t","o","r","e">>)>> >>),
      None_, List_(<<>>) }

WriterBodies ==
    {engine[2] : engine \in EngineResponses}
    \cup {Int_(0), Int_(7), Bool_(FALSE), List_(<<Str(<<"x">>)>>), Str(<<"1","2">>)}

\* set_response(bottle.request, bottle.response, ...), called by itself
SetResponse ==
    \E status \in {201}, headers \in WriterHeaders, body \in WriterBodies,
       force_json \in {Bool_(TRUE), Bool_(FALSE)} :
        LET set == set_response(request, response, status, headers, body, force_json)
        IN  Handle(Ended("set_response", <<status, headers, body, force_json>>,
                         request, set.response, <<>>, set.raised, None_))

Next ==
    \/ initialize
    \/ create_token_response
    \/ verify_request
    \/ create_introspect_response
    \/ create_authorization_response
    \/ ExtractParams
    \/ SetResponse

Spec == Init /\ [][Next]_vars

(***************************************************************************)
(* What the properties below read from a state                             *)
(***************************************************************************)
WrapperOps ==
    {"create_token_response", "verify_request", "create_introspect_response",
     "create_authorization_response"}

EngineFns ==
    {"oauthlib.create_token_response", "oauthlib.verify_request",
     "oauthlib.create_introspect_response", "oauthlib.create_authorization_response"}

\* the operation of the engine a wrapper delegates to
EngineFnOf(op) ==
    CASE op = "create_token_response" -> "oauthlib.create_token_response"
      [] op = "verify_request" -> "oauthlib.verify_request"
      [] op = "create_introspect_response" -> "oauthlib.create_introspect_response"
      [] op = "create_authorization_response" ->
            "oauthlib.create_authorization_response"

\* the functions the last operation called, in order
Fns == [i \in 1..Len(calls) |-> calls[i].fn]

Called(fn) == \E i \in 1..Len(calls) : calls[i].fn = fn

EngineCalled == \E i \in 1..Len(calls) : calls[i].fn \in EngineFns

TheEngineCall == calls[CHOOSE i \in 1..Len(calls) : calls[i].fn \in EngineFns]

TheViewCall == calls[CHOOSE i \in 1..Len(calls) : calls[i].fn = "f"]

\* the calls without the call of a supplied credentials or scopes function
FnsAfterResolving ==
    IF Len(calls) > 0 /\ calls[1].fn \in {"credentials", "scopes"}
    THEN Tail(Fns) ELSE Fns

ContentTypeOf(headers) ==
    IF DictHas(headers, "Content-Type") THEN DictGet(headers, "Content-Type") ELSE None_

IsJsonText(body) == body.t = "str" /\ body.s # <<>> /\ json_loads(body.s).ok

\* the request is a form request
IsFormRequest(r) == r.content_type \in {FormUrlencoded, FormCharset}

\* the request carries HTTP Basic credentials
HasBasic(r) ==
    r.auth # None_ /\ r.auth.items[1].t = "str" /\ r.auth.items[2].t = "str"

\* base64 decoding, written from RFC 4648 and not from B64Encode
B64Index(c) == (CHOOSE i \in 1..Len(B64Alphabet) : B64Alphabet[i] = c) - 1

B64Sextet(c) == IF c = "=" THEN 0 ELSE B64Index(c)

RECURSIVE B64Decode(_)
B64Decode(chars) ==
    IF Len(chars) < 4 THEN <<>>
    ELSE LET n == B64Sextet(chars[1]) * 262144 + B64Sextet(chars[2]) * 4096
                  + B64Sextet(chars[3]) * 64 + B64Sextet(chars[4])
             three == << n \div 65536, (n \div 256) % 256, n % 256 >>
             kept == IF chars[3] = "=" THEN 1 ELSE IF chars[4] = "=" THEN 2 ELSE 3
         IN  SubSeq(three, 1, kept) \o B64Decode(SubSeq(chars, 5, Len(chars)))

(***************************************************************************)
(* C1: in the verify_request wrapper, whatever scopes were supplied: when  *)
(* the engine's verification returns valid = false, the wrapper returns    *)
(* HTTP 403 "Permission denied" and the wrapped view is not called; the    *)
(* view is called only when the engine returned valid = true.              *)
(***************************************************************************)
C1_InvalidIsForbidden ==
    (outcome.op = "verify_request" /\ EngineCalled) =>
        /\ TheEngineCall.ret[1] = FALSE =>
              /\ outcome.raised = "no"
              /\ outcome.value = [t |-> "HTTPError", status |-> 403,
                                  body |-> "Permission denied"]
              /\ ~Called("f")
        /\ Called("f") => TheEngineCall.ret[1] = TRUE

C1_Witness ==
    /\ outcome.op = "verify_request"
    /\ EngineCalled
    /\ TheEngineCall.ret[1] = FALSE
    /\ outcome.args[1].t = "function"
    /\ outcome.value.t = "HTTPError"

(***************************************************************************)
(* C2: for every call of set_response whose body is a non-empty string     *)
(* that is valid JSON: with force_json or Accept exactly application/json  *)
(* the response gets the JSON content type and the body verbatim; in every *)
(* other case it gets the form content type and the body is the parsed     *)
(* top-level mapping as key=value pairs joined with "&".                   *)
(***************************************************************************)
C2_JsonBodyNegotiated ==
    (outcome.op = "set_response" /\ outcome.args[2].t = "dict"
        /\ IsJsonText(outcome.args[3])) =>
        /\ outcome.raised = "no"
        /\ IF outcome.args[4] = Bool_(TRUE)
              \/ (DictHas(received.headers, "Accept")
                  /\ DictGet(received.headers, "Accept").s = ApplicationJson)
           THEN /\ ContentTypeOf(response.headers).s = JsonContentType
                /\ response.body = outcome.args[3]
           ELSE /\ ContentTypeOf(response.headers).s = FormContentType
                /\ LET values == json_loads(outcome.args[3].s).val
                   IN  values.t = "dict" =>
                          response.body = Str(FormEncode(values.pairs))

\* what is left of C2 when the body's JSON is an object
C2_JsonObjectNegotiated ==
    (outcome.op = "set_response" /\ outcome.args[2].t = "dict"
        /\ IsJsonText(outcome.args[3])
        /\ json_loads(outcome.args[3].s).val.t = "dict") =>
        C2_JsonBodyNegotiated

(***************************************************************************)
(* C3: after the create_introspect_response wrapper has handled a request  *)
(* the response's content type is application/json, whatever the Accept    *)
(* header and whatever body the engine returned.                           *)
(***************************************************************************)
C3_IntrospectAlwaysJson ==
    (outcome.op = "create_introspect_response" /\ outcome.raised = "no") =>
        /\ ContentTypeOf(response.headers) # None_
        /\ ContentTypeOf(response.headers).s = JsonContentType

(***************************************************************************)
(* C3 as amended: after the create_introspect_response wrapper has handled *)
(* a request for which the engine returned a non-empty string body that    *)
(* parses as JSON, the response's content type is                          *)
(* application/json;charset=UTF-8 and its body the engine's, whatever the  *)
(* Accept header; for any other body the wrapper sets no content type (it  *)
(* is what the engine's headers gave, if anything).  The token and         *)
(* authorization wrappers handling such a JSON body write the JSON content *)
(* type only when Accept is exactly application/json.                      *)
(***************************************************************************)
C3_IntrospectJsonForJsonBody ==
    (outcome.op \in WrapperOps /\ outcome.raised = "no" /\ Called("set_response")) =>
        LET engine == TheEngineCall.ret
            json == ContentTypeOf(response.headers) = Str(JsonContentType)
        IN  IF outcome.op = "create_introspect_response"
            THEN IF IsJsonText(engine[2])
                 THEN json /\ response.body = engine[2]
                 ELSE ContentTypeOf(response.headers) = ContentTypeOf(engine[1].pairs)
            ELSE IsJsonText(engine[2]) =>
                    (json <=> (/\ DictHas(received.headers, "Accept")
                               /\ DictGet(received.headers, "Accept").s = ApplicationJson))

C3_Witness ==
    /\ outcome.op = "create_introspect_response"
    /\ outcome.raised = "no"
    /\ DictHas(received.headers, "Accept")
    /\ DictGet(received.headers, "Accept").s = FormUrlencoded
    /\ IsJsonText(TheEngineCall.ret[2])
    /\ ContentTypeOf(response.headers) = Str(JsonContentType)

(***************************************************************************)
(* C4: each of the four wrappers delegates to the engine, then writes the  *)
(* engine's response onto the outgoing response, then calls the view; its  *)
(* result is the view's return value when the view returns a value, and    *)
(* the response object when the view returns no value.                     *)
(***************************************************************************)
C4_AllFourWriteThenView ==
    (outcome.op \in WrapperOps /\ outcome.raised = "no") =>
        /\ Len(FnsAfterResolving) = 3
        /\ FnsAfterResolving[1] \in EngineFns
        /\ FnsAfterResolving[2] = "set_response"
        /\ FnsAfterResolving[3] = "f"
        /\ outcome.value = IF TheViewCall.ret = None_ THEN response ELSE TheViewCall.ret

(***************************************************************************)
(* C4 as amended: each of the token, introspection and authorization       *)
(* wrappers, when it completes, has delegated to the engine, then written  *)
(* the engine's response onto the outgoing response, then called the view; *)
(* its result is the view's return value when that value is truthy, and    *)
(* the response object when the view returns None or another falsy value   *)
(* (an empty string).  The verify wrapper writes nothing onto the          *)
(* response: it delegates to the engine and calls the view last, only when *)
(* the engine answered valid, and then returns the view's return value as  *)
(* it is, None included.                                                   *)
(***************************************************************************)
C4_ThreeWriteThenView ==
    (outcome.op \in WrapperOps /\ outcome.raised = "no") =>
        IF outcome.op = "verify_request"
        THEN /\ ~Called("set_response")
             /\ response = [t |-> "response", status |-> 200, headers |-> <<>>,
                            body |-> Str(<<>>)]
             /\ FnsAfterResolving[1] = "oauthlib.verify_request"
             /\ IF TheEngineCall.ret[1]
                THEN /\ FnsAfterResolving
                           = <<"oauthlib.verify_request", "add_params_to_request", "f">>
                     /\ outcome.value = TheViewCall.ret
                ELSE FnsAfterResolving
                        = <<"oauthlib.verify_request", "add_params_to_request">>
        ELSE /\ Len(FnsAfterResolving) = 3
             /\ FnsAfterResolving[1] = EngineFnOf(outcome.op)
             /\ FnsAfterResolving[2] = "set_response"
             /\ FnsAfterResolving[3] = "f"
             /\ calls[Len(calls) - 1].args
                   = <<TheEngineCall.ret[3], TheEngineCall.ret[1], TheEngineCall.ret[2],
                       Bool_(outcome.op = "create_introspect_response")>>
             /\ outcome.value =
                   IF TheViewCall.ret \in {None_, Str(<<>>)} THEN response
                   ELSE TheViewCall.ret

C4_Witness ==
    /\ outcome.op = "create_token_response"
    /\ outcome.raised = "no"
    /\ TheViewCall.ret = Str(<<>>)
    /\ outcome.value = response
    /\ response.status = 400

(***************************************************************************)
(* C5: the only mutation of the request is attaching client, user and      *)
(* scopes from the engine's verification result, and it happens after a    *)
(* successful verification: when the engine returns valid = false the      *)
(* request is left exactly as it was received, and the token,              *)
(* introspection and authorization wrappers never modify the request.      *)
(***************************************************************************)
C5_RequestUntouchedUnlessValid ==
    (outcome.op \in WrapperOps) =>
        /\ (outcome.op # "verify_request") => request = received
        /\ (outcome.op = "verify_request" /\ EngineCalled
              /\ TheEngineCall.ret[1] = FALSE) => request = received

(***************************************************************************)
(* C5 as amended: the only mutation of the request is attaching client,    *)
(* user and scopes from the engine's verification result to the request's  *)
(* oauth mapping, and it happens right after every verification the engine *)
(* answers, valid or not: the mapping keeps the other entries it had, and  *)
(* every other field of the request is as it was received.  A verify       *)
(* handling that ends before the engine is called, and the token,          *)
(* introspection and authorization wrappers, never modify the request.     *)
(***************************************************************************)
C5_AttachedAfterEveryVerification ==
    (outcome.op \in WrapperOps) =>
        IF outcome.op = "verify_request" /\ EngineCalled
        THEN LET r == TheEngineCall.ret[2]
                 old == IF received.oauth = [t |-> "unset"] THEN <<>>
                        ELSE received.oauth.pairs
             IN  /\ FnsAfterResolving[1] = "oauthlib.verify_request"
                 /\ FnsAfterResolving[2] = "add_params_to_request"
                 /\ [request EXCEPT !.oauth = received.oauth] = received
                 /\ request.oauth.t = "dict"
                 /\ DictKeys(request.oauth.pairs)
                       = DictKeys(old) \cup {"client", "user", "scopes"}
                 /\ DictGet(request.oauth.pairs, "client") = r.client
                 /\ DictGet(request.oauth.pairs, "user") = r.user
                 /\ DictGet(request.oauth.pairs, "scopes") = r.scopes
                 /\ \A k \in DictKeys(old) \ {"client", "user", "scopes"} :
                       DictGet(request.oauth.pairs, k) = DictGet(old, k)
        ELSE request = received

C5_Witness ==
    /\ outcome.op = "verify_request"
    /\ EngineCalled
    /\ TheEngineCall.ret[1] = FALSE
    /\ received.oauth # [t |-> "unset"]
    /\ request # received
    /\ DictGet(request.oauth.pairs, "client") = TheEngineCall.ret[2].client
    /\ DictHas(request.oauth.pairs, "state")

(***************************************************************************)
(* C6: for a form-urlencoded request with HTTP Basic credentials,          *)
(* extract_params returns as body a mapping that holds every form field    *)
(* with its value plus client_id and client_secret, which are the Basic    *)
(* username and password unless the form defines that key; the returned    *)
(* headers are the request's headers.                                      *)
(***************************************************************************)
C6_FormBodyMergesBasic ==
    (outcome.op = "extract_params" /\ IsFormRequest(received) /\ HasBasic(received)) =>
        LET body == outcome.value.body
            forms == received.forms
        IN  /\ body.t = "dict"
            /\ DictKeys(body.pairs) = DictKeys(forms) \cup {"client_id", "client_secret"}
            /\ \A k \in DictKeys(forms) : DictGet(body.pairs, k) = DictGet(forms, k)
            /\ ~DictHas(forms, "client_id") =>
                  DictGet(body.pairs, "client_id") = received.auth.items[1]
            /\ ~DictHas(forms, "client_secret") =>
                  DictGet(body.pairs, "client_secret") = received.auth.items[2]
            /\ outcome.value.headers = received.headers

C6_Witness ==
    /\ outcome.op = "extract_params"
    /\ IsFormRequest(received)
    /\ HasBasic(received)
    /\ DictHas(received.forms, "client_id")
    /\ DictGet(outcome.value.body.pairs, "client_id") # received.auth.items[1]
    /\ DictGet(outcome.value.body.pairs, "client_secret") = received.auth.items[2]

(***************************************************************************)
(* C7: for a request that is not form-urlencoded, extract_params returns   *)
(* the raw body; with Basic credentials the returned headers are the       *)
(* request's headers with Authorization = "Basic " + base64(user:password);*)
(* with no authentication or a Bearer token they are the request's         *)
(* headers.                                                                *)
(***************************************************************************)
C7_RawBodyAndBasicHeader ==
    (outcome.op = "extract_params" /\ ~IsFormRequest(received)) =>
        /\ outcome.value.body = received.body
        /\ HasBasic(received) =>
              LET headers == outcome.value.headers
                  given == DictGet(headers, "Authorization").s
              IN  /\ DictKeys(headers) = DictKeys(received.headers) \cup {"Authorization"}
                  /\ \A k \in DictKeys(received.headers) \ {"Authorization"} :
                        DictGet(headers, k) = DictGet(received.headers, k)
                  /\ SubSeq(given, 1, 6) = <<"B","a","s","i","c"," ">>
                  /\ B64Decode(SubSeq(given, 7, Len(given)))
                        = Latin1(received.auth.items[1].s \o <<":">>
                                 \o received.auth.items[2].s)
                  /\ Len(given) = 6 + 4 * ((Len(received.auth.items[1].s)
                                           + Len(received.auth.items[2].s) + 3) \div 3)
        /\ received.auth = None_ => outcome.value.headers = received.headers

C7_Witness ==
    /\ outcome.op = "extract_params"
    /\ ~IsFormRequest(received)
    /\ HasBasic(received)
    /\ Len(received.auth.items[2].s) > 1
    /\ DictHas(outcome.value.headers, "Authorization")
    /\ outcome.value.body = received.body

(***************************************************************************)
(* C8: the credentials of the token wrapper and the scopes of the verify   *)
(* wrapper are resolved before the engine is called: when the supplied     *)
(* value is invocable the engine receives the result of calling it on the  *)
(* request, never the function itself; when it is not invocable the engine *)
(* receives the supplied value as it is.                                   *)
(***************************************************************************)
C8_EngineGetsResolvedValue ==
    (outcome.op \in {"create_token_response", "verify_request"} /\ EngineCalled) =>
        LET supplied == outcome.args[1]
            passed == TheEngineCall.args[5]
        IN  IF supplied.t = "function"
            THEN /\ passed # supplied
                 /\ calls[1].fn \in {"credentials", "scopes"}
                 /\ supplied.does = "returns" => passed = supplied.ret
            ELSE passed = supplied

(***************************************************************************)
(* C9: set_response fails with a type error whenever headers is not a      *)
(* mapping and whenever body is present but not a string; when body is     *)
(* empty or absent (falsy, as Python tests it) it sets only status and     *)
(* headers and completes without error; a string body that does not parse  *)
(* as JSON is never an error.                                              *)
(***************************************************************************)
C9_TypeErrors ==
    (outcome.op = "set_response") =>
        LET status == outcome.args[1]
            headers == outcome.args[2]
            body == outcome.args[3]
            empty == body \in {None_, Str(<<>>), Bytes_(<<>>), Int_(0), Bool_(FALSE)}
        IN  /\ headers.t # "dict" => outcome.raised = "TypeError"
            /\ (headers.t = "dict" /\ ~empty /\ body.t # "str") =>
                  outcome.raised = "TypeError"
            /\ (headers.t = "dict" /\ empty) =>
                  /\ outcome.raised = "no"
                  /\ response.status = status
                  /\ response.headers = headers.pairs
                  /\ response.body = Str(<<>>)
            /\ (headers.t = "dict" /\ body.t = "str" /\ ~empty /\ ~IsJsonText(body)) =>
                  outcome.raised = "no" /\ response.body = body

C9_Witness ==
    /\ outcome.op = "set_response"
    /\ outcome.args[2].t = "dict"
    /\ outcome.args[3].t = "list"
    /\ outcome.raised = "TypeError"
    /\ response.status = 201

(***************************************************************************)
(* C10: in each of the four wrappers, when no engine has been configured   *)
(* through initialize, handling a request fails with the assertion before  *)
(* anything else happens: nobody is called, the request and the response   *)
(* are left as they were; once initialize has been called with an engine   *)
(* the assertion does not fire.                                            *)
(***************************************************************************)
C10_AssertsEngineFirst ==
    [][(outcome'.op \in WrapperOps /\ outcome' # outcome) =>
          IF oauthlib = None_
          THEN /\ outcome'.raised = "AssertionError"
               /\ calls' = <<>>
               /\ request' = request
               /\ response' = response
          ELSE outcome'.raised # "AssertionError"]_vars

C10_Witness ==
    /\ outcome.op = "verify_request"
    /\ outcome.args[1].t = "function"
    /\ outcome.raised = "AssertionError"
    /\ oauthlib = None_
    /\ calls = <<>>

=============================================================================
